---------------------------- MODULE Spec2Model ----------------------------
(***************************************************************************)
(* State-machine model of the timeserver (src/server.go): main(), the      *)
(* identity registry `users`, the session cookie codec and the five        *)
(* request handlers. net/http runs each request on its own goroutine: up   *)
(* to MaxInflight logins are in flight between people.NewPerson and        *)
(* users.Add while other requests are served. The earlier variant of the   *)
(* server (src/unnamed/part_000: main, timeHandler, notFound) is modelled  *)
(* next to it; `variant` says which of the two programs is running.        *)
(*                                                                         *)
(* Go strings that are inspected character by character (the submitted     *)
(* name) or passed to a view as data are sequences of one-character        *)
(* strings; paths, methods, cookie values and template names are TLA+      *)
(* strings.                                                                *)
(***************************************************************************)
EXTENDS Integers, Sequences, FiniteSets, TLC

VARIABLES
    variant,    \* the program that runs: "server.go" or "part_000"
    args,       \* the command line the process was started with
    mainpc,     \* main(): "main" (started), "serving", "exited"
    addr,       \* the address main() passed to http.ListenAndServe
    users,      \* var users = people.NewUsers(): the registry, id -> Person
    persons,    \* every Person people.NewPerson has constructed so far
    alive,      \* FALSE once log.Fatal has terminated the process
    pending,    \* the logins in flight between NewPerson and users.Add
    last,       \* the request whose handler just returned, until it is sent
    delivered,  \* identifiers handed to clients in a login's Set-Cookie
    completed   \* the number of valid login submits that have returned

vars ==
    <<variant, args, mainpc, addr, users, persons, alive, pending, last,
      delivered, completed>>

\* What main() decides for the lifetime of the process.
process == <<variant, args, mainpc, addr>>

---------------------------------------------------------------------------
(* Bounds of the model. *)

\* Logins in flight at once.
MaxInflight == 2

\* Identifiers the generator can hand out before the pool is exhausted.
MaxIds == 2

IdPool == {"u" \o ToString(i) : i \in 1..MaxIds}

---------------------------------------------------------------------------
(* Program constants. *)

COOKIE_NAME == "uuid"

COOKIE_MAX_AGE == 86400

StatusFound == 302

StatusBadRequest == 400

StatusNotFound == 404

\* The value and max-age handleLogout passes to setCookie.
LOGOUT_VALUE == "deleted"

LOGOUT_MAX_AGE == -1

\* The bounds of the regular expression's counted repetitions:
\* ^[a-zA-Z]{2,35} {0,1}[a-zA-Z]{0,35}$
FirstRunMin == 2

FirstRunMax == 35

SpaceMax == 1

SecondRunMax == 35

\* "C'mon, I need a name."
ERROR_MESSAGE ==
    <<"C", "'", "m", "o", "n", ",", " ", "I", " ", "n", "e", "e", "d", " ",
      "a", " ", "n", "a", "m", "e", ".">>

---------------------------------------------------------------------------
(* The login name validator. *)

Letters ==
    {"a", "b", "c", "d", "e", "f", "g", "h", "i", "j", "k", "l", "m",
     "n", "o", "p", "q", "r", "s", "t", "u", "v", "w", "x", "y", "z",
     "A", "B", "C", "D", "E", "F", "G", "H", "I", "J", "K", "L", "M",
     "N", "O", "P", "Q", "R", "S", "T", "U", "V", "W", "X", "Y", "Z"}

\* regexp.MatchString("^[a-zA-Z]{2,35} {0,1}[a-zA-Z]{0,35}$", name): the
\* whole of name splits into i letters, j spaces and k letters with
\* 2 <= i <= 35, 0 <= j <= 1, 0 <= k <= 35 (Go's $ matches only at the end
\* of the text).
MatchString(name) ==
    \E i \in FirstRunMin..FirstRunMax, j \in 0..SpaceMax :
        LET k == Len(name) - i - j
        IN  /\ k \in 0..SecondRunMax
            /\ \A p \in 1..i : name[p] \in Letters
            /\ \A p \in (i + 1)..(i + j) : name[p] = " "
            /\ \A p \in (i + j + 1)..(i + j + k) : name[p] \in Letters

---------------------------------------------------------------------------
(* Requests. *)

Rep(c, n) == [p \in 1..n |-> c]

JaneDoe == <<"J", "a", "n", "e", " ", "D", "o", "e">>

Al == <<"A", "l">>

LongWord == Rep("a", FirstRunMax + 1)

\* The name fields submitted to POST /login.
FormNames ==
    { JaneDoe, Al, LongWord,
      <<>>, <<"a">>, <<"A", "1">>, <<"1", "2", "3">>,
      <<"J", "o", "h", "n", " ", " ", "D", "o", "e">> }

Paths == {"/", "/index.html", "/login", "/logout", "/time", "/timer"}

Methods == {"GET", "POST", "PUT"}

CookieValues == IdPool \cup {"", LOGOUT_VALUE}

\* A request: its path and method, whether it carries a cookie named
\* COOKIE_NAME and that cookie's value, and its form field "name" (read by
\* POST /login only, and left empty on every other request).
Requests ==
    { r \in [path : Paths, method : Methods, hasCookie : BOOLEAN,
             cookie : CookieValues, name : FormNames] :
        /\ (~r.hasCookie => r.cookie = "")
        /\ (~(r.path = "/login" /\ r.method = "POST") => r.name = <<>>) }

\* The routing table main() builds; unmatched paths go to NotFoundHandler.
Route(path) ==
    CASE path = "/" -> "handleDefault"
      [] path = "/index.html" -> "handleDefault"
      [] path = "/login" -> "handleLogin"
      [] path = "/logout" -> "handleLogout"
      [] path = "/time" -> "handleTime"
      [] OTHER -> "handleNotFound"

---------------------------------------------------------------------------
(* The command line. *)

Variants == {"server.go", "part_000"}

\* flag.String("port", "8080", ...) and flag.Bool("V", false, ...).
FlagDefaults == [port |-> "8080", V |-> FALSE]

\* The values given to -port.
PortFlags == {"9001"}

\* A command line: whether -port is given and its value, whether -V is.
CommandLines ==
    { c \in [hasPort : BOOLEAN, port : PortFlags \cup {""}, V : BOOLEAN] :
        c.hasPort <=> c.port # "" }

\* flag.Parse(): a flag given on the command line replaces its default.
Parse(flags, c) ==
    [port |-> IF c.hasPort THEN c.port ELSE flags.port, V |-> c.V]

---------------------------------------------------------------------------
(* The response writer. *)

NilData == [tag |-> "nil", str |-> <<>>]

StringData(s) == [tag |-> "string", str |-> s]

\* Time parameters that leave the name out.
TimeParams_Anonymous(name) == [tag |-> "map", str |-> <<>>]

\* map[string]interface{}{"time": <now>, "name": name}; the clock is not
\* modelled.
TimeParams(name) == [tag |-> "map", str |-> name]

\* status 0: the header has not been written yet.
NoResp ==
    [status |-> 0, location |-> "", cookies |-> <<>>, view |-> "",
     data |-> NilData, calls |-> <<>>]

\* w.WriteHeader(code): the first call fixes the status.
WriteHeader(resp, code) ==
    [resp EXCEPT !.status = IF resp.status = 0 THEN code ELSE resp.status,
                 !.calls = Append(resp.calls, "WriteHeader")]

\* setCookie(w, uuid, maxAge): a header added after the status line was
\* written is not sent.
setCookie(resp, uuid, maxAge) ==
    LET c == [Name |-> COOKIE_NAME, Value |-> uuid, Path |-> "/", MaxAge |-> maxAge]
    IN  [resp EXCEPT !.cookies = IF resp.status = 0
                                    THEN Append(resp.cookies, c)
                                    ELSE resp.cookies,
                     !.calls = Append(resp.calls, "SetCookie")]

\* http.Redirect(w, r, url, code): sets Location and writes the header.
Redirect(resp, url, code) ==
    [resp EXCEPT !.location = IF resp.status = 0 THEN url ELSE resp.location,
                 !.status = IF resp.status = 0 THEN code ELSE resp.status,
                 !.calls = Append(resp.calls, "Redirect")]

\* templates.ExecuteTemplate(w, templ+".html", d) without error: the first
\* write sends status 200 unless a status was written before.
Rendered(resp, templ, d) ==
    [resp EXCEPT !.status = IF resp.status = 0 THEN 200 ELSE resp.status,
                 !.view = templ, !.data = d,
                 !.calls = Append(resp.calls, "ExecuteTemplate")]

\* The handler returned without writing anything: net/http sends 200.
Returned(resp) ==
    [resp EXCEPT !.status = IF resp.status = 0 THEN 200 ELSE resp.status]

---------------------------------------------------------------------------
(* The session codec and the registry. *)

\* A codec that answers a request without the cookie with an identifier
\* of the pool instead of "".
idFromUUIDCookie_Placeholder(req) ==
    IF req.hasCookie THEN req.cookie ELSE CHOOSE id \in IdPool : TRUE

\* idFromUUIDCookie(r): the cookie's value, "" when the cookie is absent.
idFromUUIDCookie(req) == IF req.hasCookie THEN req.cookie ELSE ""

NoPerson == [ID |-> "", Name |-> <<>>]

\* A generator that may repeat an identifier.
FreshIds_Repeating == IdPool

\* The identifiers people.NewPerson may return: any not handed out before.
FreshIds == IdPool \ {p.ID : p \in persons}

\* people.NewPerson(name) with identifier id.
NewPerson(id, name) == [ID |-> id, Name |-> name]

\* An Add that loses the entries stored before (a lost update).
Add_Lossy(u, person) == (person.ID :> person)

\* users.Add(person): stores the person under its ID.
Add(u, person) == (person.ID :> person) @@ u

\* users.Name(id): the name stored under id, "" when there is none.
Name(u, id) == IF id \in DOMAIN u THEN u[id].Name ELSE <<>>

---------------------------------------------------------------------------
(* The state of one request: the goroutine serving it. *)

\* pc: "idle" (no request), "created" (handleLogin between NewPerson and
\* users.Add), "done" (the handler returned), "fatal" (log.Fatal ran).
\* The record keeps the path the router matched and what the handler reads
\* of the request: the method and the form name (handleLogin), the cookie's
\* identifier (handleDefault, handleTime), and whether the request carried
\* a session cookie at all.
Idle ==
    [pc |-> "idle", path |-> "", handler |-> "", method |-> "",
     hasCookie |-> FALSE,
     form |-> <<>>, id |-> "", name |-> <<>>, person |-> NoPerson,
     resp |-> NoResp]

Taken(req) ==
    [Idle EXCEPT !.path = req.path, !.handler = Route(req.path),
                 !.hasCookie = req.hasCookie]

\* renderTemplate(w, templ, d) as the handler's last call. ExecuteTemplate
\* returns nil (ok) and the response is complete, or it returns an error (the
\* view is missing from templates/, or executing or writing it fails) and
\* log.Fatal ends the process before http.Error can run.
renderTemplate(g, resp, templ, d, ok) ==
    IF ok
    THEN [g EXCEPT !.pc = "done", !.resp = Rendered(resp, templ, d)]
    ELSE [g EXCEPT !.pc = "fatal",
                   !.resp = [resp EXCEPT !.calls = Append(resp.calls, "ExecuteTemplate")]]

\* The process has been started, with either program and any command line;
\* the package variables are initialised and main() is about to run.
Init ==
    /\ variant \in Variants
    /\ args \in CommandLines
    /\ mainpc = "main"
    /\ addr = ""
    /\ users = <<>>
    /\ persons = {}
    /\ alive = TRUE
    /\ pending = {}
    /\ last = Idle
    /\ delivered = {}
    /\ completed = 0

\* main() from the parsed flags on: -V prints the version and exits;
\* otherwise http.ListenAndServe(a, nil) either binds and serves, or
\* returns an error (the port is taken) and the process ends.
Start(flags, a) ==
    IF flags.V
    THEN /\ addr' = ""
         /\ mainpc' = "exited"
         /\ alive' = FALSE
    ELSE \E bound \in BOOLEAN :
           /\ addr' = a
           /\ mainpc' = IF bound THEN "serving" ELSE "exited"
           /\ alive' = bound

\* src/server.go main(): flag.Parse(), then portParam := ":" + *portPtr.
Main ==
    /\ variant = "server.go"
    /\ mainpc = "main"
    /\ LET flags == Parse(FlagDefaults, args)
           portParam == ":" \o flags.port
       IN  Start(flags, portParam)
    /\ UNCHANGED <<variant, args, users, persons, pending, last, delivered, completed>>

\* src/unnamed/part_000 main(): portString := ":" + *portPtr, then
\* flag.Parse().
Part000Main ==
    /\ variant = "part_000"
    /\ mainpc = "main"
    /\ LET portString == ":" \o FlagDefaults.port
           flags == Parse(FlagDefaults, args)
       IN  Start(flags, portString)
    /\ UNCHANGED <<variant, args, users, persons, pending, last, delivered, completed>>

\* The running process routes a request to its handler. The response of
\* the handler that returned before has been sent.
Accepts(req, handler) ==
    /\ variant = "server.go"
    /\ mainpc = "serving"
    /\ alive
    /\ last.pc = "idle"
    /\ Route(req.path) = handler

\* A server that also stops after it has refused a login name.
Return_StopsOnRefusal(g) ==
    /\ last' = g
    /\ alive' = (g.pc # "fatal" /\ g.resp.status # StatusBadRequest)

\* The handler returned in state g; the process stops when it ended in
\* log.Fatal.
Return(g) ==
    /\ last' = g
    /\ alive' = (g.pc # "fatal")

---------------------------------------------------------------------------
(* The handlers. *)

\* A default handler that greets whenever the cookie carries a value.
Greets_AnyCookie(id, name) == id # ""

\* handleDefault, line 56: the test name != "" on the looked-up name.
Greets(id, name) == name # <<>>

\* handleDefault: the greeting for a known identifier, else a redirect.
HandleDefault(req) ==
    /\ Accepts(req, "handleDefault")
    /\ LET id == idFromUUIDCookie(req)
           name == Name(users, id)
           g == [Taken(req) EXCEPT !.id = id, !.name = name]
       IN  IF Greets(id, name)
           THEN \E ok \in BOOLEAN :
                  Return(renderTemplate(g, NoResp, "greetings", StringData(name), ok))
           ELSE Return([g EXCEPT !.pc = "done",
                                 !.resp = Redirect(NoResp, "/login", StatusFound)])
    /\ UNCHANGED <<process, users, persons, pending, delivered, completed>>

\* A login form that also clears the session cookie of the visitor.
HandleLoginGet_ClearsCookie(req) ==
    /\ Accepts(req, "handleLogin")
    /\ req.method = "GET"
    /\ \E ok \in BOOLEAN :
         Return(renderTemplate([Taken(req) EXCEPT !.method = req.method],
                               setCookie(NoResp, LOGOUT_VALUE, LOGOUT_MAX_AGE),
                               "login", NilData, ok))
    /\ UNCHANGED <<process, users, persons, pending, delivered, completed>>

\* handleLogin, r.Method == "GET": the login form.
HandleLoginGet(req) ==
    /\ Accepts(req, "handleLogin")
    /\ req.method = "GET"
    /\ \E ok \in BOOLEAN :
         Return(renderTemplate([Taken(req) EXCEPT !.method = req.method],
                               NoResp, "login", NilData, ok))
    /\ UNCHANGED <<process, users, persons, pending, delivered, completed>>

\* A login that keeps the identifier of the session the client presents.
PersonIds_KeepSession(req) ==
    IF idFromUUIDCookie(req) \in DOMAIN users THEN {idFromUUIDCookie(req)} ELSE FreshIds

\* handleLogin, line 81: person := people.NewPerson(name), a new Person
\* whatever cookie the request carries.
PersonIds(req) == FreshIds

\* handleLogin, r.Method == "POST" and the name matches: NewPerson. The
\* goroutine is then in flight, about to call users.Add.
HandleLoginPostValid(req) ==
    /\ Accepts(req, "handleLogin")
    /\ req.method = "POST"
    /\ MatchString(req.name)
    /\ Cardinality(pending) < MaxInflight
    /\ \E id \in PersonIds(req) :
         /\ pending' = pending \cup
                {[Taken(req) EXCEPT !.pc = "created", !.method = req.method,
                                    !.form = req.name,
                                    !.person = NewPerson(id, req.name)]}
         /\ persons' = persons \cup {NewPerson(id, req.name)}
    /\ UNCHANGED <<process, users, alive, last, delivered, completed>>

\* A login whose cookie is set with the max-age of a logout.
LoginResponse_Expired(person) ==
    Redirect(setCookie(NoResp, person.ID, LOGOUT_MAX_AGE), "/", StatusFound)

\* A login that redirects first and sets the cookie afterwards.
LoginResponse_CookieLate(person) ==
    setCookie(Redirect(NoResp, "/", StatusFound), person.ID, COOKIE_MAX_AGE)

\* handleLogin, lines 83-84: setCookie(w, person.ID, COOKIE_MAX_AGE) and
\* http.Redirect(w, r, "/", http.StatusFound).
LoginResponse(person) ==
    Redirect(setCookie(NoResp, person.ID, COOKIE_MAX_AGE), "/", StatusFound)

\* A login that answers without having stored the person.
RegistryAfterLogin_Forgotten(person) == users

\* handleLogin, line 82: users.Add(person).
RegistryAfterLogin(person) == Add(users, person)

\* handleLogin, lines 82-86: users.Add, setCookie, http.Redirect, return.
HandleLoginAdd(g) ==
    /\ alive
    /\ last.pc = "idle"
    /\ g \in pending
    /\ pending' = pending \ {g}
    /\ users' = RegistryAfterLogin(g.person)
    /\ Return([g EXCEPT !.pc = "done", !.resp = LoginResponse(g.person)])
    /\ completed' = completed + 1
    /\ UNCHANGED <<process, persons, delivered>>

\* A refusal that forgets w.WriteHeader(http.StatusBadRequest).
RefusalHeader_Missing == NoResp

\* handleLogin, line 89: w.WriteHeader(http.StatusBadRequest).
RefusalHeader == WriteHeader(NoResp, StatusBadRequest)

\* handleLogin, r.Method == "POST" and the name does not match.
HandleLoginPostInvalid(req) ==
    /\ Accepts(req, "handleLogin")
    /\ req.method = "POST"
    /\ ~MatchString(req.name)
    /\ \E ok \in BOOLEAN :
         Return(renderTemplate([Taken(req) EXCEPT !.method = req.method, !.form = req.name],
                               RefusalHeader, "login", StringData(ERROR_MESSAGE), ok))
    /\ UNCHANGED <<process, users, persons, pending, delivered, completed>>

\* handleLogin, any other method: only a debug line is logged.
HandleLoginOther(req) ==
    /\ Accepts(req, "handleLogin")
    /\ req.method \notin {"GET", "POST"}
    /\ Return([Taken(req) EXCEPT !.pc = "done", !.method = req.method,
                                 !.resp = Returned(NoResp)])
    /\ UNCHANGED <<process, users, persons, pending, delivered, completed>>

\* A logout that sets the cookie with the max-age of a login.
LogoutHeader_KeepsSession == setCookie(NoResp, LOGOUT_VALUE, COOKIE_MAX_AGE)

\* handleLogout, line 100: setCookie(w, "deleted", -1).
LogoutHeader == setCookie(NoResp, LOGOUT_VALUE, LOGOUT_MAX_AGE)

\* A logout that also deletes the record of the cookie's identifier.
RegistryAfterLogout_Deletes(req) ==
    [id \in DOMAIN users \ {idFromUUIDCookie(req)} |-> users[id]]

\* handleLogout, lines 97-102: no call on users.
RegistryAfterLogout(req) == users

\* handleLogout: the invalidating cookie, then the logged-out view.
HandleLogout(req) ==
    /\ Accepts(req, "handleLogout")
    /\ \E ok \in BOOLEAN :
         Return(renderTemplate(Taken(req), LogoutHeader, "logged-out", NilData, ok))
    /\ users' = RegistryAfterLogout(req)
    /\ UNCHANGED <<process, persons, pending, delivered, completed>>

\* A not-found handler that forgets w.WriteHeader(http.StatusNotFound).
NotFoundHeader_Missing == NoResp

\* handleNotFound, line 106: w.WriteHeader(http.StatusNotFound).
NotFoundHeader == WriteHeader(NoResp, StatusNotFound)

\* handleNotFound: status 404, then the 404 view.
HandleNotFound(req) ==
    /\ Accepts(req, "handleNotFound")
    /\ \E ok \in BOOLEAN :
         Return(renderTemplate(Taken(req), NotFoundHeader, "404", NilData, ok))
    /\ UNCHANGED <<process, users, persons, pending, delivered, completed>>

\* handleTime: the time view with the looked-up name, which may be empty.
HandleTime(req) ==
    /\ Accepts(req, "handleTime")
    /\ LET id == idFromUUIDCookie(req)
           name == Name(users, id)
       IN  \E ok \in BOOLEAN :
             Return(renderTemplate([Taken(req) EXCEPT !.id = id, !.name = name],
                                   NoResp, "time", TimeParams(name), ok))
    /\ UNCHANGED <<process, users, persons, pending, delivered, completed>>

---------------------------------------------------------------------------
(* The handlers of src/unnamed/part_000. *)

\* The routing table part_000's main() builds: /time, and NotFoundHandler
\* for every other path.
Part000Route(path) == IF path = "/time" THEN "timeHandler" ELSE "notFound"

\* map[string]interface{}{"localTime": <now>, "UTCTime": <now>}: no name.
Part000TimeParams == [tag |-> "map", str |-> <<>>]

\* templates.ExecuteTemplate(w, templ, d) with its error dropped: the
\* handler returns normally whether or not the view was written.
ExecuteTemplate(g, resp, templ, d, ok) ==
    IF ok
    THEN [g EXCEPT !.pc = "done", !.resp = Rendered(resp, templ, d)]
    ELSE [g EXCEPT !.pc = "done",
                   !.resp = Returned([resp EXCEPT
                                !.calls = Append(resp.calls, "ExecuteTemplate")])]

Part000Accepts(req, handler) ==
    /\ variant = "part_000"
    /\ mainpc = "serving"
    /\ alive
    /\ last.pc = "idle"
    /\ Part000Route(req.path) = handler

Part000Taken(req) ==
    [Idle EXCEPT !.path = req.path, !.handler = Part000Route(req.path),
                 !.hasCookie = req.hasCookie]

\* timeHandler: the time view.
timeHandler(req) ==
    /\ Part000Accepts(req, "timeHandler")
    /\ \E ok \in BOOLEAN :
         Return(ExecuteTemplate(Part000Taken(req), NoResp, "time",
                                Part000TimeParams, ok))
    /\ UNCHANGED <<process, users, persons, pending, delivered, completed>>

\* notFound: status 404, then the http404 view.
notFound(req) ==
    /\ Part000Accepts(req, "notFound")
    /\ \E ok \in BOOLEAN :
         Return(ExecuteTemplate(Part000Taken(req),
                                WriteHeader(NoResp, StatusNotFound),
                                "http404", NilData, ok))
    /\ UNCHANGED <<process, users, persons, pending, delivered, completed>>

---------------------------------------------------------------------------
(* Sending the response. *)

\* The session cookies a client stores from a response: those with a
\* positive max-age.
Stored(resp) ==
    {resp.cookies[i].Value : i \in {j \in DOMAIN resp.cookies : resp.cookies[j].MaxAge > 0}}

\* The server sends the finished response and the goroutine ends.
Finish ==
    /\ alive
    /\ last.pc = "done"
    /\ delivered' = delivered \cup Stored(last.resp)
    /\ last' = Idle
    /\ UNCHANGED <<process, users, persons, alive, pending, completed>>

Next ==
    \/ Main
    \/ Part000Main
    \/ \E req \in Requests : timeHandler(req)
    \/ \E req \in Requests : notFound(req)
    \/ \E req \in Requests : HandleDefault(req)
    \/ \E req \in Requests : HandleLoginGet(req)
    \/ \E req \in Requests : HandleLoginPostValid(req)
    \/ \E g \in pending : HandleLoginAdd(g)
    \/ \E req \in Requests : HandleLoginPostInvalid(req)
    \/ \E req \in Requests : HandleLoginOther(req)
    \/ \E req \in Requests : HandleLogout(req)
    \/ \E req \in Requests : HandleNotFound(req)
    \/ \E req \in Requests : HandleTime(req)
    \/ Finish

Spec == Init /\ [][Next]_vars

---------------------------------------------------------------------------
(* Vocabulary of the properties. *)

\* The handler has just finished with a request: the response is complete
\* ("done"), or the render failed and the process ended ("fatal").
Handled(handler) ==
    /\ last.handler = handler
    /\ last.pc \in {"done", "fatal"}

\* g is a POST /login whose name the validator accepted / refused.
ValidSubmit(g) ==
    /\ g.handler = "handleLogin"
    /\ g.method = "POST"
    /\ MatchString(g.form)

InvalidSubmit(g) ==
    /\ g.handler = "handleLogin"
    /\ g.method = "POST"
    /\ ~MatchString(g.form)

\* The step in which the handler returns from a request.
Returns(handler) ==
    /\ last.pc = "idle"
    /\ last'.pc # "idle"
    /\ last'.handler = handler

\* The session cookie handleLogin sets for identifier id.
LoginCookie(id) ==
    [Name |-> "uuid", Value |-> id, Path |-> "/", MaxAge |-> 86400]

\* The names of the persons constructed with identifier id.
CreatedNames(id) == {p.Name : p \in {q \in persons : q.ID = id}}

---------------------------------------------------------------------------
(* C1: every POST /login whose name passes validation adds exactly one new *)
(* entry to the registry, answers 302 to / with the session cookie (uuid,  *)
(* path /, max-age 86400) set to that entry's identifier, and the          *)
(* identifier then looks up to exactly the submitted name; a later GET /   *)
(* that carries a delivered identifier and is answered gets 200 and the    *)
(* greeting for the name.                                                  *)

C1_LoginResponse ==
    (ValidSubmit(last) /\ last.pc # "idle") =>
        /\ last.pc = "done"
        /\ last.resp.status = 302
        /\ last.resp.location = "/"
        /\ last.resp.cookies = <<LoginCookie(last.person.ID)>>
        /\ last.resp.view = ""
        /\ last.person.Name = last.form
        /\ Name(users, last.person.ID) = last.form

C1_OneNewEntry ==
    (Returns("handleLogin") /\ ValidSubmit(last')) =>
        /\ last'.person.ID \notin DOMAIN users
        /\ DOMAIN users' = DOMAIN users \cup {last'.person.ID}
        /\ users'[last'.person.ID] = last'.person
        /\ \A id \in DOMAIN users : users'[id] = users[id]

C1_GreetingFollows ==
    (/\ Returns("handleDefault")
     /\ last'.pc = "done"
     /\ last'.hasCookie
     /\ last'.id \in delivered) =>
        /\ last'.resp.status = 200
        /\ last'.resp.view = "greetings"
        /\ last'.resp.data.tag = "string"
        /\ CreatedNames(last'.id) = {last'.resp.data.str}

C1_LoginCreatesSession ==
    /\ [](C1_LoginResponse)
    /\ [][C1_OneNewEntry /\ C1_GreetingFollows]_vars

\* Jane Doe logged in, the response with her cookie was sent, and a GET /
\* carrying it was answered with her greeting.
C1_Witness ==
    /\ Handled("handleDefault")
    /\ last.id \in delivered
    /\ last.resp.status = 200
    /\ last.resp.view = "greetings"
    /\ last.resp.data.str = JaneDoe

---------------------------------------------------------------------------
(* C2: a POST /login whose name fails validation is answered 400 with the  *)
(* login view and the validation-error message whenever the view renders;  *)
(* in every case status 400 is written, no Set-Cookie is emitted and the   *)
(* registry (and the set of persons constructed) is left as it was.        *)

C2_Refusal ==
    (InvalidSubmit(last) /\ last.pc # "idle") =>
        /\ last.pc \in {"done", "fatal"}
        /\ last.resp.status = 400
        /\ last.resp.cookies = <<>>
        /\ \A i \in DOMAIN last.resp.calls : last.resp.calls[i] # "SetCookie"
        /\ last.resp.location = ""
        /\ last.person = NoPerson
        /\ (last.pc = "done" =>
               /\ last.resp.view = "login"
               /\ last.resp.data = StringData(ERROR_MESSAGE))

C2_RefusalFrame ==
    (Returns("handleLogin") /\ InvalidSubmit(last')) =>
        /\ users' = users
        /\ persons' = persons
        /\ pending' = pending
        /\ delivered' = delivered

C2_NeverPending == \A g \in pending : ~InvalidSubmit(g)

C2_InvalidLoginRefused ==
    /\ [](C2_Refusal /\ C2_NeverPending)
    /\ [][C2_RefusalFrame]_vars

\* The name "123" was refused on a request that carried a session cookie,
\* while the registry held an entry.
C2_Witness ==
    /\ InvalidSubmit(last)
    /\ last.pc = "done"
    /\ last.form = <<"1", "2", "3">>
    /\ last.hasCookie
    /\ DOMAIN users # {}

---------------------------------------------------------------------------
(* C3: the validator accepts exactly the names made of one run of 2-35     *)
(* letters, optionally followed by a single space and a second run of 0-35 *)
(* letters; every other name, a single word of 36 letters included, is     *)
(* refused with status 400 and constructs no person.                       *)

\* The grammar as the claim states it: the second run comes only after the
\* single space.
InGrammar(name) ==
    \E i \in 2..35 :
        /\ i <= Len(name)
        /\ \A p \in 1..i : name[p] \in Letters
        /\ \/ Len(name) = i
           \/ /\ name[i + 1] = " "
              /\ Len(name) - i - 1 \in 0..35
              /\ \A p \in (i + 2)..Len(name) : name[p] \in Letters

C3_ValidatorIsGrammar ==
    \A g \in pending \cup {last} :
        (g.handler = "handleLogin" /\ g.method = "POST") =>
            IF InGrammar(g.form)
            THEN g.pc \in {"created", "done"} /\ g.person.Name = g.form
            ELSE /\ g.pc \in {"done", "fatal"}
                 /\ g.resp.status = 400
                 /\ g.person = NoPerson

---------------------------------------------------------------------------
(* C4: the default route (/ and /index.html) answers 200 with the greeting *)
(* exactly when the lookup of the cookie's identifier yields a non-empty   *)
(* name (the identifier is empty when the request has no session cookie);  *)
(* otherwise it answers 302 to /login and renders no view. The only other  *)
(* outcome is a failed render of the greeting, which ends the process.     *)

GreetingFor(name) ==
    [status |-> 200, location |-> "", cookies |-> <<>>, view |-> "greetings",
     data |-> StringData(name), calls |-> <<"ExecuteTemplate">>]

RedirectToLogin ==
    [status |-> 302, location |-> "/login", cookies |-> <<>>, view |-> "",
     data |-> NilData, calls |-> <<"Redirect">>]

C4_Answer ==
    (last.handler = "handleDefault" /\ last.pc # "idle") =>
        /\ (~last.hasCookie => last.id = "")
        /\ IF last.name # <<>>
           THEN /\ last.pc \in {"done", "fatal"}
                /\ (last.pc = "done" => last.resp = GreetingFor(last.name))
                /\ last.resp.status # 302
           ELSE /\ last.pc = "done"
                /\ last.resp = RedirectToLogin

\* The name the handler acts on is the registry's answer for the cookie's
\* identifier at the time of the request, which is empty for a request
\* without the cookie, with an empty value or with an unknown identifier.
C4_Lookup ==
    Returns("handleDefault") =>
        /\ last'.name = Name(users, last'.id)
        /\ (last'.id \notin DOMAIN users => last'.resp = RedirectToLogin)
        /\ (last'.id = "" => last'.resp = RedirectToLogin)
        /\ users' = users

C4_DefaultRoute ==
    /\ [](C4_Answer)
    /\ [][C4_Lookup]_vars

\* With Al's identifier delivered, a request carrying an identifier the
\* registry does not hold was redirected to /login.
C4_Witness ==
    /\ Handled("handleDefault")
    /\ \E id \in delivered : Name(users, id) = Al
    /\ last.hasCookie
    /\ last.id = "deleted"
    /\ last.resp = RedirectToLogin

---------------------------------------------------------------------------
(* C5: logout is unconditional and idempotent: whatever the request and    *)
(* however many logouts came before, every logout the handler completes    *)
(* answers 200 with the logged-out view and one Set-Cookie for uuid with   *)
(* the invalidating value and Max-Age=-1.                                  *)

LoggedOut ==
    [status |-> 200, location |-> "",
     cookies |-> <<[Name |-> "uuid", Value |-> "deleted", Path |-> "/", MaxAge |-> -1]>>,
     view |-> "logged-out", data |-> NilData,
     calls |-> <<"SetCookie", "ExecuteTemplate">>]

C5_LogoutIdempotent ==
    (last.handler = "handleLogout" /\ last.pc # "idle") =>
        /\ last.pc \in {"done", "fatal"}
        /\ last.resp.cookies = LoggedOut.cookies
        /\ (last.pc = "done" => last.resp = LoggedOut)

\* A logout without a session cookie was answered while the registry
\* holds one entry and another login is in flight.
C5_Witness ==
    /\ Cardinality(DOMAIN users) = 1
    /\ pending # {}
    /\ last.handler = "handleLogout"
    /\ last.pc = "done"
    /\ ~last.hasCookie
    /\ last.resp = LoggedOut

---------------------------------------------------------------------------
(* C6: a logout leaves the registry as it was: no record is removed or     *)
(* changed, so every identifier resolves to the same name after the logout *)
(* as before it.                                                           *)

C6_LogoutKeepsRegistry ==
    [][Returns("handleLogout") =>
          /\ users' = users
          /\ \A id \in DOMAIN users : Name(users', id) = Name(users, id)]_vars

\* A logout by a client that presented a session cookie was answered and
\* the identifiers delivered so far still resolve.
C6_Witness ==
    /\ delivered # {}
    /\ \A id \in delivered : Name(users, id) # <<>>
    /\ last.handler = "handleLogout"
    /\ last.pc = "done"
    /\ last.hasCookie

---------------------------------------------------------------------------
(* C7: the registry is append-only and its records are immutable: no step  *)
(* removes an identifier or changes the person stored under it, every      *)
(* record is stored under its own identifier, and the name stored under an *)
(* identifier is the one name a person was ever constructed with for it.   *)

C7_StepKeepsRecords ==
    \A id \in DOMAIN users : id \in DOMAIN users' /\ users'[id] = users[id]

C7_OnePersonPerId ==
    \A id \in DOMAIN users :
        /\ users[id].ID = id
        /\ users[id] \in persons
        /\ CreatedNames(id) = {users[id].Name}

C7_RegistryAppendOnly ==
    /\ [](C7_OnePersonPerId)
    /\ [][C7_StepKeepsRecords]_vars

\* The registry holds Jane Doe, whose identifier was delivered, and a login
\* by a client that carried a session cookie has stored Al next to her.
C7_Witness ==
    /\ Cardinality(DOMAIN users) = 2
    /\ ValidSubmit(last)
    /\ last.pc = "done"
    /\ last.hasCookie
    /\ last.form = Al
    /\ \E id \in delivered : Name(users, id) = JaneDoe

---------------------------------------------------------------------------
(* C8: every login is given an identifier that no person was constructed   *)
(* with before, also for a repeated name and for overlapping logins: Add   *)
(* never finds the identifier in the registry and no two logins share one. *)

C8_FreshAtCreation ==
    \A g \in pending' \ pending :
        /\ g.person.ID \notin {p.ID : p \in persons}
        /\ g.person.ID \notin DOMAIN users
        /\ g.person.ID \notin delivered
        /\ g.person.ID # ""

C8_AddNeverOverwrites ==
    \A g \in pending \ pending' : g.person.ID \notin DOMAIN users

C8_NoSharedId ==
    /\ \A p, q \in persons : p.ID = q.ID => p = q
    /\ \A g, h \in pending \cup {last} :
        (g # h /\ ValidSubmit(g) /\ ValidSubmit(h)) => g.person.ID # h.person.ID
    /\ \A g \in pending : g.person.ID \notin DOMAIN users

C8_IdentifiersUnique ==
    /\ [](C8_NoSharedId)
    /\ [][C8_FreshAtCreation /\ C8_AddNeverOverwrites]_vars

\* Two overlapping logins submitted the same name and each holds a person
\* of its own.
C8_Witness ==
    \E g, h \in pending :
        /\ g.person.ID # h.person.ID
        /\ g.form = JaneDoe
        /\ h.form = JaneDoe

---------------------------------------------------------------------------
(* C9: once a login's response has delivered an identifier, every lookup   *)
(* of it by a later request (default or time route, on any goroutine)      *)
(* returns the name of the person constructed with it, never empty.        *)

C9_DeliveredResolves ==
    \A id \in delivered :
        /\ Name(users, id) # <<>>
        /\ CreatedNames(id) = {Name(users, id)}

C9_LaterLookup ==
    ((Returns("handleDefault") \/ Returns("handleTime")) /\ last'.id \in delivered) =>
        /\ last'.name # <<>>
        /\ CreatedNames(last'.id) = {last'.name}

C9_ReadYourWrites ==
    /\ [](C9_DeliveredResolves)
    /\ [][C9_LaterLookup]_vars

\* The time route looked up a delivered identifier and found Jane Doe.
C9_Witness ==
    /\ Handled("handleTime")
    /\ last.id \in delivered
    /\ last.name = JaneDoe

---------------------------------------------------------------------------
(* C10: under every interleaving of logins and lookups no Add is lost or   *)
(* corrupted: the registry holds exactly the persons whose Add has run,    *)
(* each under its own identifier with its own name, and a lookup returns   *)
(* empty or the name of the person constructed with the identifier.        *)

\* The Add of person p has run: no login still holds p between NewPerson
\* and users.Add.
Added(p) == \A g \in pending : g.person # p

C10_ConcurrentRegistrySafe ==
    /\ \A p \in persons : Added(p) => (p.ID \in DOMAIN users /\ users[p.ID] = p)
    /\ \A id \in DOMAIN users : users[id] \in persons /\ Added(users[id])
    /\ Cardinality(DOMAIN users) = Cardinality({p \in persons : Added(p)})
    /\ (last.handler \in {"handleDefault", "handleTime"}) =>
            \/ last.name = <<>>
            \/ last.name \in CreatedNames(last.id)

\* With Jane Doe stored, a lookup of the identifier of Al's login, which is
\* still in flight between NewPerson and Add, returned empty.
C10_Witness ==
    /\ \E id \in DOMAIN users : users[id].Name = JaneDoe
    /\ \E g \in pending :
        /\ g.form = Al
        /\ Handled("handleTime")
        /\ last.id = g.person.ID
        /\ last.name = <<>>

---------------------------------------------------------------------------
(* C11: the time route answers every request it completes with 200 and the *)
(* time view, whatever the session state: it never redirects, sets no      *)
(* cookie and leaves the registry as it was, and the name it passes to the *)
(* view is the registry's answer for the cookie's identifier, which is     *)
(* empty when the cookie is absent or the identifier is unknown.           *)

C11_Answer ==
    (last.handler = "handleTime" /\ last.pc # "idle") =>
        /\ last.pc \in {"done", "fatal"}
        /\ last.resp.location = ""
        /\ last.resp.cookies = <<>>
        /\ last.resp.calls = <<"ExecuteTemplate">>
        /\ last.resp.status \in {0, 200}
        /\ (~last.hasCookie => (last.id = "" /\ last.name = <<>>))
        /\ (last.pc = "done" =>
               /\ last.resp.status = 200
               /\ last.resp.view = "time"
               /\ last.resp.data.tag = "map"
               /\ last.resp.data.str = last.name)

C11_Lookup ==
    Returns("handleTime") =>
        /\ last'.name = Name(users, last'.id)
        /\ (last'.id \notin DOMAIN users => last'.name = <<>>)
        /\ users' = users
        /\ persons' = persons
        /\ pending' = pending

C11_TimeRoute ==
    /\ [](C11_Answer)
    /\ [][C11_Lookup]_vars

\* With an entry in the registry, a time request whose cookie carries an
\* identifier the registry does not hold got the time view with no name.
C11_Witness ==
    /\ DOMAIN users # {}
    /\ last.handler = "handleTime"
    /\ last.pc = "done"
    /\ last.hasCookie
    /\ last.id = "deleted"
    /\ last.resp.view = "time"
    /\ last.resp.data.str = <<>>

---------------------------------------------------------------------------
(* C12: when the renderer cannot produce the requested view, an HTTP 500   *)
(* error is written to that request's response before the process exits,   *)
(* and the process then terminates and serves no further requests.         *)

C12_RenderFailureWrites500 ==
    (last.pc = "fatal") =>
        /\ last.resp.status = 500
        /\ ~alive

---------------------------------------------------------------------------
(* C13: once the server is listening, the only request-time path that ends *)
(* the process is a failed render: the process is down exactly when the    *)
(* last handler ended in log.Fatal, every other handler return (refused    *)
(* login names, missing or empty cookies, unknown identifiers, unmatched   *)
(* paths, unsupported methods) leaves it running, its response can be      *)
(* sent and the next request, whatever it is, can be served.               *)

\* Some handler of the running program serves req.
Serves(req) ==
    \/ HandleDefault(req)
    \/ HandleLoginGet(req)
    \/ HandleLoginPostValid(req)
    \/ HandleLoginPostInvalid(req)
    \/ HandleLoginOther(req)
    \/ HandleLogout(req)
    \/ HandleNotFound(req)
    \/ HandleTime(req)
    \/ timeHandler(req)
    \/ notFound(req)

\* The model's bounds leave room for one more login.
RoomForLogin == Cardinality(pending) < MaxInflight /\ FreshIds # {}

C13_DownOnlyAfterFatal ==
    (mainpc = "serving") =>
        /\ alive <=> (last.pc # "fatal")
        /\ (last.pc = "done" => ENABLED Finish)
        /\ (last.pc = "idle" =>
               \A req \in Requests :
                   (RoomForLogin \/ variant = "part_000"
                      \/ ~(req.path = "/login" /\ req.method = "POST"
                             /\ MatchString(req.name)))
                   => ENABLED Serves(req))

C13_StopsOnlyByFatal ==
    (mainpc = "serving" /\ alive /\ ~alive') => last'.pc = "fatal"

C13_OnlyRenderFailureStops ==
    /\ [](C13_DownOnlyAfterFatal)
    /\ [][C13_StopsOnlyByFatal]_vars

\* After a login had been stored, a PUT /login was answered and the
\* process is still running.
C13_Witness ==
    /\ mainpc = "serving"
    /\ alive
    /\ DOMAIN users # {}
    /\ last.handler = "handleLogin"
    /\ last.method = "PUT"
    /\ last.pc = "done"

---------------------------------------------------------------------------
(* C14: every request, for every route and every method (a /login request  *)
(* whose method is neither GET nor POST included), ends in exactly one of  *)
(* the five response shapes: a redirect, a personalized view, an           *)
(* anonymous or form view, the error view with 400, the not-found view     *)
(* with 404; none ends without a redirect or a view, none with two.        *)

IsRedirect(resp) ==
    resp.status = 302 /\ resp.location # "" /\ resp.view = ""

IsPersonalizedView(resp) ==
    /\ resp.status = 200
    /\ resp.location = ""
    /\ resp.view \in {"greetings", "time"}
    /\ resp.data.str # <<>>

IsAnonymousView(resp) ==
    /\ resp.status = 200
    /\ resp.location = ""
    /\ resp.view \in {"login", "logged-out", "time"}
    /\ resp.data.str = <<>>

IsErrorView(resp) ==
    resp.status = 400 /\ resp.location = "" /\ resp.view = "login"

IsNotFoundView(resp) ==
    resp.status = 404 /\ resp.location = "" /\ resp.view = "404"

\* The number of redirects and views the handler wrote.
Answers(resp) ==
    Cardinality({i \in DOMAIN resp.calls :
                    resp.calls[i] \in {"Redirect", "ExecuteTemplate"}})

C14_OneOfFiveShapes ==
    (variant = "server.go" /\ last.pc = "done") =>
        /\ Answers(last.resp) = 1
        /\ \/ IsRedirect(last.resp)
           \/ IsPersonalizedView(last.resp)
           \/ IsAnonymousView(last.resp)
           \/ IsErrorView(last.resp)
           \/ IsNotFoundView(last.resp)

---------------------------------------------------------------------------
(* C15: in both server variants every request whose path matches none of   *)
(* the registered routes goes to the not-found handler, which writes       *)
(* status 404 first and then the not-found view, without reading the       *)
(* session cookie and without touching the registry.                       *)

\* The paths registered with HandleFunc in each main().
RegisteredPaths ==
    IF variant = "server.go"
    THEN {"/", "/index.html", "/login", "/logout", "/time"}
    ELSE {"/time"}

NotFoundView == IF variant = "server.go" THEN "404" ELSE "http404"

\* The view was written: ExecuteTemplate was called and left a view.
ViewWritten(resp) == resp.view # ""

C15_Answer ==
    (last.pc # "idle" /\ last.path \notin RegisteredPaths) =>
        /\ last.handler \in {"handleNotFound", "notFound"}
        /\ last.resp.status = 404
        /\ last.resp.calls = <<"WriteHeader", "ExecuteTemplate">>
        /\ last.resp.location = ""
        /\ last.resp.cookies = <<>>
        /\ last.id = ""
        /\ last.name = <<>>
        /\ (ViewWritten(last.resp) =>
               /\ last.pc = "done"
               /\ last.resp.view = NotFoundView
               /\ last.resp.data = NilData)
        /\ (variant = "server.go" /\ last.pc = "done" => ViewWritten(last.resp))

C15_Frame ==
    (last.pc = "idle" /\ last'.pc # "idle" /\ last'.path \notin RegisteredPaths) =>
        /\ users' = users
        /\ persons' = persons
        /\ pending' = pending
        /\ delivered' = delivered

C15_OnlyUnmatched ==
    (last.handler \in {"handleNotFound", "notFound"}) =>
        last.path \notin RegisteredPaths

C15_NotFound ==
    /\ [](C15_Answer /\ C15_OnlyUnmatched)
    /\ [][C15_Frame]_vars

\* The earlier variant answered /login, a path it does not register, with
\* 404 and its not-found view, on a request carrying a session cookie.
C15_Witness ==
    /\ variant = "part_000"
    /\ last.path = "/login"
    /\ last.hasCookie
    /\ last.pc = "done"
    /\ last.resp.status = 404
    /\ last.resp.view = "http404"

---------------------------------------------------------------------------
(* C16: in each server variant the address passed to the listener is built *)
(* from the -port flag's value after the command line has been parsed: the *)
(* server listens on the given port, and on 8080 only when the flag is     *)
(* absent, so starting with -port=9001 binds to :9001.                     *)

\* The port the command line asks for.
RequestedPort == IF args.hasPort THEN args.port ELSE "8080"

C16_ListensOnFlagPort ==
    (mainpc = "serving") =>
        /\ addr = ":" \o RequestedPort
        /\ (addr = ":8080" => ~args.hasPort)

---------------------------------------------------------------------------
(* C17: within one login-submit or logout request the steps happen in      *)
(* order. As stated: the handler issues the redirect or invokes the        *)
(* renderer first and writes the cookie mutation after it, and the         *)
(* response carries the Set-Cookie directive. As the code has it: the      *)
(* handler writes the cookie mutation first, then issues the redirect      *)
(* (login) or invokes the renderer (logout), then the response is sent,    *)
(* and the response that reaches the client carries the Set-Cookie.        *)

\* The handler has returned from a request that mutates the cookie.
CookieRequest ==
    /\ last.pc = "done"
    /\ ValidSubmit(last) \/ last.handler = "handleLogout"

\* The order as stated: the answer, then the cookie.
C17_AnswerThenCookie ==
    CookieRequest =>
        /\ Len(last.resp.calls) = 2
        /\ last.resp.calls[1] \in {"Redirect", "ExecuteTemplate"}
        /\ last.resp.calls[2] = "SetCookie"
        /\ Len(last.resp.cookies) = 1

\* The order of the code: the cookie, then the answer.
C17_CookieFirst ==
    CookieRequest =>
        /\ Len(last.resp.calls) = 2
        /\ last.resp.calls[1] = "SetCookie"
        /\ last.resp.calls[2] =
              (IF last.handler = "handleLogin" THEN "Redirect" ELSE "ExecuteTemplate")
        /\ Len(last.resp.cookies) = 1
        /\ last.resp.cookies[1].Name = "uuid"
        /\ last.resp.cookies[1].Value =
              (IF last.handler = "handleLogin" THEN last.person.ID ELSE "deleted")

\* The response is sent after the handler returned, cookie included.
C17_SentWithCookie ==
    (CookieRequest /\ last'.pc = "idle") =>
        /\ last.resp.status # 0
        /\ (ValidSubmit(last) => last.person.ID \in delivered')

C17_CookieThenAnswer ==
    /\ [](C17_CookieFirst)
    /\ [][C17_SentWithCookie]_vars

\* Jane Doe's login returned: setCookie, then the redirect, and the
\* response holds her cookie.
C17_Witness ==
    /\ ValidSubmit(last)
    /\ last.pc = "done"
    /\ last.form = JaneDoe
    /\ last.resp.calls = <<"SetCookie", "Redirect">>
    /\ last.resp.cookies[1].Value = last.person.ID

---------------------------------------------------------------------------
(* C18: only a valid login submit changes the registry, and only a valid   *)
(* login submit and a logout emit a Set-Cookie: the default route, GET     *)
(* /login, a refused POST /login, the time route and the not-found route   *)
(* leave the registry as it was and set no cookie. So after any sequence   *)
(* of requests the registry has as many entries as valid login submits     *)
(* have completed, also when the client already held a valid session.      *)

\* The handler's calls include setCookie.
SetsCookie(resp) ==
    \E i \in DOMAIN resp.calls : resp.calls[i] = "SetCookie"

C18_OnlyLoginWrites ==
    (users' # users) =>
        /\ Returns("handleLogin")
        /\ ValidSubmit(last')
        /\ completed' = completed + 1
        /\ Cardinality(DOMAIN users') = Cardinality(DOMAIN users) + 1

C18_OnlyLoginAndLogoutSetCookie ==
    (last.pc # "idle" /\ (SetsCookie(last.resp) \/ last.resp.cookies # <<>>)) =>
        ValidSubmit(last) \/ last.handler = "handleLogout"

C18_ReadOnlyRoutes ==
    (/\ last.pc = "idle"
     /\ last'.pc # "idle"
     /\ ~ValidSubmit(last')
     /\ last'.handler # "handleLogout") =>
        /\ users' = users
        /\ completed' = completed
        /\ last'.resp.cookies = <<>>
        /\ ~SetsCookie(last'.resp)

C18_EntriesCountLogins == Cardinality(DOMAIN users) = completed

C18_FrameAndCount ==
    /\ [](C18_OnlyLoginAndLogoutSetCookie /\ C18_EntriesCountLogins)
    /\ [][C18_OnlyLoginWrites /\ C18_ReadOnlyRoutes]_vars

\* Two logins have completed, the second by a client that presented a
\* session cookie while the first identifier was delivered, and the
\* registry holds both entries.
C18_Witness ==
    /\ completed = 2
    /\ Cardinality(DOMAIN users) = 2
    /\ delivered # {}
    /\ ValidSubmit(last)
    /\ last.pc = "done"
    /\ last.hasCookie
    /\ last.form = JaneDoe
    /\ \E id \in delivered : Name(users, id) = JaneDoe /\ id # last.person.ID

---------------------------------------------------------------------------
(* C19: a lookup of an identifier that was never added returns empty and   *)
(* the empty identifier is never a key of the registry; the handlers look  *)
(* up the empty string when the cookie is absent, so a request without a   *)
(* session cookie is treated as anonymous in every reachable state:        *)
(* redirected to /login by the default route and shown the time view       *)
(* without a name, whatever logins have happened before.                   *)

\* The identifiers users.Add has been called with.
AddedIds == {p.ID : p \in {q \in persons : Added(q)}}

C19_MissIsEmpty ==
    /\ "" \notin DOMAIN users
    /\ \A id \in CookieValues \ AddedIds : Name(users, id) = <<>>

C19_NoCookieIsAnonymous ==
    (last.pc # "idle" /\ ~last.hasCookie) =>
        /\ last.id = ""
        /\ last.name = <<>>
        /\ (last.handler = "handleDefault" => last.resp = RedirectToLogin)
        /\ (last.handler = "handleTime" /\ last.pc = "done" =>
               last.resp.data.str = <<>>)

C19_LookupOfNeverAdded ==
    ((Returns("handleDefault") \/ Returns("handleTime"))
        /\ last'.id \notin AddedIds) =>
        /\ last'.name = <<>>
        /\ last'.pc \in {"done", "fatal"}
        /\ (last'.handler = "handleDefault" => last'.pc = "done")

C19_MissIsAnonymous ==
    /\ [](C19_MissIsEmpty /\ C19_NoCookieIsAnonymous)
    /\ [][C19_LookupOfNeverAdded]_vars

\* After a login was stored and its identifier delivered, a request to the
\* default route without a cookie was redirected to /login.
C19_Witness ==
    /\ delivered # {}
    /\ \A id \in delivered : Name(users, id) # <<>>
    /\ last.handler = "handleDefault"
    /\ last.pc = "done"
    /\ ~last.hasCookie
    /\ last.resp = RedirectToLogin

=============================================================================
